---- MODULE Spec2Model ----
(***************************************************************************)
(* WorkPolish: the polish handler of app.py (subject extraction, the       *)
(* body/notes split, the cleanup pass, the fallback chain and the final    *)
(* clean) and the record store of storage_sqlite.py.                       *)
(*                                                                         *)
(* A Python str is a sequence of one-character strings, so that the        *)
(* regular expressions and the str methods of the source are computed      *)
(* character by character.  Python's None is the empty tuple and a value   *)
(* x that may be None is carried as <<x>> (see None, Some).                *)
(***************************************************************************)
EXTENDS Naturals, Sequences, FiniteSets

VARIABLES pc, user_text, context, response, raw_output, subject, remaining,
          polished_text, notes, cleaned, conn, records, calls

vars == <<pc, user_text, context, response, raw_output, subject, remaining,
          polished_text, notes, cleaned, conn, records, calls>>

----------------------------------------------------------------------------
(* Optional values *)

None == <<>>

Some(x) == <<x>>

IsNone(o) == Len(o) = 0

Get(o) == o[1]

----------------------------------------------------------------------------
(* Characters and the str methods the source uses *)

Min(S) == CHOOSE x \in S : \A y \in S : x <= y

Max(S) == CHOOSE x \in S : \A y \in S : y <= x

\* \s of re (and the whitespace str.strip() removes)
IsSpace(c) == c \in {" ", "\t", "\n", "\r", "\f"}

Digits == {"0", "1", "2", "3", "4", "5", "6", "7", "8", "9"}

\* \d of re
IsDigit(c) == c \in Digits

UpperCase == <<"A", "B", "C", "D", "E", "F", "G", "H", "I", "J", "K", "L", "M",
               "N", "O", "P", "Q", "R", "S", "T", "U", "V", "W", "X", "Y", "Z">>

LowerCase == <<"a", "b", "c", "d", "e", "f", "g", "h", "i", "j", "k", "l", "m",
               "n", "o", "p", "q", "r", "s", "t", "u", "v", "w", "x", "y", "z">>

\* the case folding of re.I
Lower(c) ==
    IF \E i \in 1..26 : UpperCase[i] = c
    THEN LowerCase[CHOOSE i \in 1..26 : UpperCase[i] = c]
    ELSE c

\* s[i:] of Python, with i a 1-based index
From(s, i) == SubSeq(s, i, Len(s))

\* s[:i] of Python, exclusive of the 1-based index i
Before(s, i) == SubSeq(s, 1, i - 1)

\* the first index >= i of s that holds no whitespace, Len(s) + 1 if none:
\* where a greedy \s* started at i stops
SkipWs(s, i) ==
    LET S == {k \in i..Len(s) : ~IsSpace(s[k])}
    IN  IF S = {} THEN Len(s) + 1 ELSE Min(S)

\* str.lstrip()
LStrip(s) == From(s, SkipWs(s, 1))

\* str.rstrip()
RStrip(s) ==
    LET S == {k \in 1..Len(s) : ~IsSpace(s[k])}
    IN  IF S = {} THEN <<>> ELSE SubSeq(s, 1, Max(S))

\* str.strip()
Strip(s) == LStrip(RStrip(s))

\* str.strip(ch): every leading and every trailing ch is removed
StripChar(s, ch) ==
    LET S == {k \in 1..Len(s) : s[k] # ch}
    IN  IF S = {} THEN <<>> ELSE SubSeq(s, Min(S), Max(S))

\* w occurs in s at index i, letter case ignored when ci
OccursAt(s, i, w, ci) ==
    /\ i >= 1
    /\ i + Len(w) - 1 <= Len(s)
    /\ \A k \in 1..Len(w) :
          IF ci THEN Lower(s[i + k - 1]) = Lower(w[k]) ELSE s[i + k - 1] = w[k]

\* w in s
Contains(s, w) == \E i \in 1..(Len(s) + 1) : OccursAt(s, i, w, FALSE)

\* s[i] is one of the characters of set, and i is an index of s
CharAt(s, i, set) == i >= 1 /\ i <= Len(s) /\ s[i] \in set

RECURSIVE SplitOn(_, _)
\* re.split(r"[<brk>]+", s): the pieces of s between runs of characters of brk
SplitOn(s, brk) ==
    LET B == {k \in 1..Len(s) : s[k] \in brk}
    IN  IF B = {} THEN <<s>>
        ELSE LET b == Min(B)
                 N == {k \in b..Len(s) : s[k] \notin brk}
             IN  IF N = {} THEN <<Before(s, b), <<>> >>
                 ELSE <<Before(s, b)>> \o SplitOn(From(s, Min(N)), brk)

\* [s for s in pieces if s.strip()]
NonBlank(pieces) == SelectSeq(pieces, LAMBDA p : Strip(p) # <<>>)

\* "sep".join(pieces)
RECURSIVE Join(_, _)
Join(pieces, sep) ==
    IF pieces = <<>> THEN <<>>
    ELSE IF Len(pieces) = 1 THEN pieces[1]
    ELSE pieces[1] \o sep \o Join(Tail(pieces), sep)

\* str.splitlines(), for text whose only line boundary is "\n"
RECURSIVE SplitLines(_)
SplitLines(s) ==
    LET B == {k \in 1..Len(s) : s[k] = "\n"}
    IN  IF s = <<>> THEN <<>>
        ELSE IF B = {} THEN <<s>>
        ELSE <<Before(s, Min(B))>> \o SplitLines(From(s, Min(B) + 1))

\* len(s.split()): the number of maximal runs of non-whitespace
WordCount(s) ==
    Cardinality({k \in 1..Len(s) :
                    ~IsSpace(s[k]) /\ (k = 1 \/ IsSpace(s[k - 1]))})

----------------------------------------------------------------------------
(* extract_subject *)

SubjectLabels == << <<"S", "u", "b", "j", "e", "c", "t">>,
                    <<"S", "u", "b", "j", "e", "c", "t", " ", "L", "i", "n", "e">> >>

\* One alternative of (?:Subject|Subject Line) tried at index i of raw, then
\* \s*[:\-]\s*(.+)$ under re.I | re.M.  The second \s* is greedy and gives
\* characters back until (.+) finds a character that is not a newline; (.+) then
\* runs to the end of that line.  None, or Some of the match.
SubjectMatchAlt(raw, i, label) ==
    IF ~OccursAt(raw, i, label, TRUE) THEN None
    ELSE LET k == SkipWs(raw, i + Len(label))
         IN  IF ~CharAt(raw, k, {":", "-"}) THEN None
             ELSE LET m  == SkipWs(raw, k + 1)
                      St == {s \in (k + 1)..m : s <= Len(raw) /\ raw[s] # "\n"}
                  IN  IF St = {} THEN None
                      ELSE LET s == Max(St)
                               E == {e \in s..Len(raw) : raw[e] = "\n"}
                               e == IF E = {} THEN Len(raw) + 1 ELSE Min(E)
                           IN  Some([start |-> i, group1 |-> SubSeq(raw, s, e - 1),
                                     end |-> e])

\* The pattern tried at index i: the alternatives in their order
SubjectMatchAt(raw, i) ==
    IF ~IsNone(SubjectMatchAlt(raw, i, SubjectLabels[1]))
    THEN SubjectMatchAlt(raw, i, SubjectLabels[1])
    ELSE SubjectMatchAlt(raw, i, SubjectLabels[2])

\* where ^ matches under re.M: the start of raw and after each newline
LineStarts(raw) == {1} \cup {k + 1 : k \in {j \in 1..Len(raw) : raw[j] = "\n"}}

\* re.search of the Subject pattern: the leftmost match
SubjectSearch(raw) ==
    LET M == {i \in LineStarts(raw) : ~IsNone(SubjectMatchAt(raw, i))}
    IN  IF M = {} THEN None ELSE SubjectMatchAt(raw, Min(M))

\* subject.strip().strip('"')
CleanQuotes(s) == StripChar(Strip(s), "\"")

\* a word limit one above the implicit subject rule's
NineWords == 8 + 1

\* the word limit of the implicit subject line
MaxSubjectWords == 8

\* extract_subject once the label search (m) and the lines of raw.strip() are known
SubjectFrom(raw, m, lines) ==
    IF ~IsNone(m)
    THEN [subject   |-> Some(CleanQuotes(Get(m).group1)),
          remaining |-> Strip(Before(raw, Get(m).start) \o From(raw, Get(m).end))]
    ELSE IF /\ Len(lines) > 1
            /\ WordCount(lines[1]) <= MaxSubjectWords
            /\ Strip(lines[2]) = <<>>
    THEN [subject   |-> Some(CleanQuotes(lines[1])),
          remaining |-> Strip(Join(SubSeq(lines, 3, Len(lines)), <<"\n">>))]
    ELSE [subject |-> None, remaining |-> raw]

extract_subject(raw) ==
    IF raw = <<>> THEN [subject |-> None, remaining |-> raw]
    ELSE SubjectFrom(raw, SubjectSearch(raw), SplitLines(Strip(raw)))

----------------------------------------------------------------------------
(* parse_polished_and_notes *)

PolishedTextHeading == <<"P", "o", "l", "i", "s", "h", "e", "d", " ", "t", "e", "x", "t">>

EditNotesHeading == <<"E", "d", "i", "t", " ", "n", "o", "t", "e", "s">>

KeyEditsHeading == <<"K", "e", "y", " ", "e", "d", "i", "t", "s">>

\* [\)\.]
MarkerClose == {")", "."}

\* [:\-]
LabelSep == {":", "-"}

\* [-\d\.\)] : the characters re.sub removes from the head of a numbered-pair note
PairNoteMarkers == {"-", ".", ")"} \cup Digits

\* [-\*\d\.\)\(] : the characters re.sub removes from the head of a cleanup note
CleanupNoteMarkers == PairNoteMarkers \cup {"*", "("}

\* \n\s*d[\)\.] matched at index j of s
NumberMarkerAt(s, j, d) ==
    /\ CharAt(s, j, {"\n"})
    /\ CharAt(s, SkipWs(s, j + 1), {d})
    /\ CharAt(s, SkipWs(s, j + 1) + 1, MarkerClose)

\* the index after the marker that NumberMarkerAt found at j
NumberMarkerEnd(s, j) == SkipWs(s, j + 1) + 2

\* re.sub(r"^\s*[<set>]+\s*", "", s): leading whitespace, a run of marker
\* characters and the whitespace after it are removed; s is returned as it is
\* when no marker character follows the leading whitespace
StripLeadingMarker(s, set) ==
    LET k == SkipWs(s, 1)
    IN  IF ~CharAt(s, k, set) THEN s
        ELSE LET E == {e \in k..Len(s) : s[e] \notin set}
                 e == IF E = {} THEN Len(s) + 1 ELSE Min(E)
             IN  From(s, SkipWs(s, e))

\* [re.sub(...).strip() for s in re.split(r"\n+", notes_raw) if s.strip()]
PairNotes(notes_raw) ==
    LET ls == NonBlank(SplitOn(notes_raw, {"\n"}))
    IN  [i \in 1..Len(ls) |-> Strip(StripLeadingMarker(ls[i], PairNoteMarkers))]

\* [s.strip() for s in re.split(r"[\n\r]+", notes_raw) if s.strip()]
PlainNotes(notes_raw) ==
    LET ls == NonBlank(SplitOn(notes_raw, {"\n", "\r"}))
    IN  [i \in 1..Len(ls) |-> Strip(ls[i])]

\* [re.sub(...).strip() for s in re.split(r"[\n\r]+", trailing) if s.strip()]
CleanupNotes(trailing) ==
    LET ls == NonBlank(SplitOn(trailing, {"\n", "\r"}))
    IN  [i \in 1..Len(ls) |-> Strip(StripLeadingMarker(ls[i], CleanupNoteMarkers))]

\* re.search(r"(?:\n|^)\s*1[\)\.]([\s\S]*?)(?:\n\s*2[\)\.])([\s\S]*)", "\n" + text):
\* the leftmost newline from which whitespace leads to a 1-marker that a later
\* 2-marker follows; the lazy group 1 ends at the first such 2-marker
NumberedPair(text) ==
    LET T  == <<"\n">> \o text
        M2(p) == {j \in (p + 2)..Len(T) : NumberMarkerAt(T, j, "2")}
        S  == {i \in 1..Len(T) : NumberMarkerAt(T, i, "1")
                                  /\ M2(SkipWs(T, i + 1)) # {}}
    IN  IF S = {} THEN None
        ELSE LET p == SkipWs(T, Min(S) + 1)
                 j == Min(M2(p))
             IN  Some([group1 |-> SubSeq(T, p + 2, j - 1),
                       group2 |-> From(T, NumberMarkerEnd(T, j))])

\* one of the alternatives \n+Edit notes[:\-]? | \n+Key edits[:\-]? | \n+2[\)\.]
\* ends its \n+ at index n - 1 of s, so that the heading or marker starts at n;
\* 0 if none, else the index after the alternative
LabeledEndAt(s, n) ==
    IF ~CharAt(s, n - 1, {"\n"}) THEN 0
    ELSE IF OccursAt(s, n, EditNotesHeading, TRUE)
         THEN n + Len(EditNotesHeading)
              + (IF CharAt(s, n + Len(EditNotesHeading), LabelSep) THEN 1 ELSE 0)
    ELSE IF OccursAt(s, n, KeyEditsHeading, TRUE)
         THEN n + Len(KeyEditsHeading)
              + (IF CharAt(s, n + Len(KeyEditsHeading), LabelSep) THEN 1 ELSE 0)
    ELSE IF CharAt(s, n, {"2"}) /\ CharAt(s, n + 1, MarkerClose) THEN n + 2
    ELSE 0

\* The labeled-heading pattern tried at an occurrence h of "Polished text" (re.I,
\* re.S): [:\-]? and the first \s* are greedy, group 1 is lazy, so group 1 starts
\* after the whitespace that follows the label and ends before the first heading
\* or 2-marker that starts a line after it; failing that, the whitespace run
\* gives back its last newline to a heading that follows it at once.  group1 is
\* given up to the whitespace at its end, which the caller strips.
LabeledAt(text, h) ==
    IF ~OccursAt(text, h, PolishedTextHeading, TRUE) THEN None
    ELSE LET a  == h + Len(PolishedTextHeading)
             a1 == IF CharAt(text, a, LabelSep) THEN a + 1 ELSE a
             w  == SkipWs(text, a1)
             N  == {n \in (w + 1)..Len(text) : LabeledEndAt(text, n) # 0}
         IN  IF N # {}
             THEN Some([group1 |-> SubSeq(text, w, Min(N) - 1),
                        group2 |-> From(text, LabeledEndAt(text, Min(N)))])
             ELSE IF w > a1 /\ w <= Len(text) /\ LabeledEndAt(text, w) # 0
             THEN Some([group1 |-> <<>>,
                        group2 |-> From(text, LabeledEndAt(text, w))])
             ELSE None

\* re.search of the labeled-heading pattern: the leftmost match
LabeledSearch(text) ==
    LET H == {h \in 1..Len(text) : ~IsNone(LabeledAt(text, h))}
    IN  IF H = {} THEN None ELSE LabeledAt(text, Min(H))

\* re.split(r"\n\s*2[\)\.]\s*", text, maxsplit=1)
SplitAtTwo(text) ==
    LET J == {j \in 1..Len(text) : NumberMarkerAt(text, j, "2")}
    IN  IF J = {} THEN <<text>>
        ELSE <<Before(text, Min(J)),
               From(text, SkipWs(text, NumberMarkerEnd(text, Min(J))))>>

\* re.sub(r"^\s*1[\)\.]\s*", "", s)
StripLeadingOne(s) ==
    LET k == SkipWs(s, 1)
    IN  IF CharAt(s, k, {"1"}) /\ CharAt(s, k + 1, MarkerClose)
        THEN From(s, SkipWs(s, k + 2))
        ELSE s

\* parse_polished_and_notes once its three searches of text are known: the
\* numbered pair (m), the labeled headings (m2), the split at "2)" (parts)
ParseFrom(text, m, m2, parts) ==
    IF ~IsNone(m)
    THEN [polished |-> Strip(Get(m).group1),
          notes    |-> PairNotes(Strip(Get(m).group2))]
    ELSE IF ~IsNone(m2)
    THEN [polished |-> Strip(Get(m2).group1),
          notes    |-> PlainNotes(Strip(Get(m2).group2))]
    ELSE IF Len(parts) = 2
    THEN [polished |-> Strip(StripLeadingOne(parts[1])),
          notes    |-> PlainNotes(parts[2])]
    ELSE [polished |-> text, notes |-> <<>>]

\* parse_polished_and_notes on text = (raw or "").strip()
ParseText(text) ==
    ParseFrom(text, NumberedPair(text), LabeledSearch(text), SplitAtTwo(text))

parse_polished_and_notes(raw) == ParseText(Strip(raw))

----------------------------------------------------------------------------
(* The polish handler *)

\* a gate that lets every context through
AnyContext(ctx) == TRUE

EmailWord == <<"E", "m", "a", "i", "l">>

\* "Email" in context
IsEmailContext(ctx) == Contains(ctx, EmailWord)

\* The text the handler reads from the response object: response.text when it is
\* truthy, else what the output / candidates branches give (other, None when the
\* object has neither list), else str(response).
ResponseText(r) ==
    IF ~IsNone(r.text) /\ Get(r.text) # <<>> THEN Get(r.text)
    ELSE IF ~IsNone(r.other) THEN Get(r.other)
    ELSE r.str

\* The first match of split_re in s, as its start index (0: no match):
\* \n\s*2[\)\.] | \n\s*Edit notes[:\-]? | \n\s*Key edits[:\-]? | \n\s*(?:-|\*)(?:\s|$)
\* under re.I
NoteMarkerAt(s, j) ==
    /\ CharAt(s, j, {"\n"})
    /\ LET k == SkipWs(s, j + 1)
       IN  \/ CharAt(s, k, {"2"}) /\ CharAt(s, k + 1, MarkerClose)
           \/ OccursAt(s, k, EditNotesHeading, TRUE)
           \/ OccursAt(s, k, KeyEditsHeading, TRUE)
           \/ CharAt(s, k, {"-", "*"}) /\ (k + 1 > Len(s) \/ IsSpace(s[k + 1]))

FirstNoteMarker(s) ==
    LET J == {j \in 1..Len(s) : NoteMarkerAt(s, j)}
    IN  IF J = {} THEN 0 ELSE Min(J)

\* split_re.split(s): the pattern is one capturing group, so parts[0] is the text
\* before the first match and "".join(parts[1:]) is the text from it on
SplitAt(s, j) == IF j = 0 THEN <<s>> ELSE <<Before(s, j), From(s, j)>>

SplitNotes(s) == SplitAt(s, FirstNoteMarker(s))

\* The cleanup pass: the body is cut at the first note marker, and what follows
\* becomes the notes when there were none.
CleanupFrom(polished, ns, parts) ==
    LET before == Strip(parts[1])
        cand   == IF Len(parts) > 1 THEN CleanupNotes(Strip(parts[2])) ELSE <<>>
    IN  [polished |-> IF before # <<>> THEN before ELSE polished,
         notes    |-> IF ns = <<>> /\ Len(parts) > 1 /\ cand # <<>> THEN cand ELSE ns]

Cleanup(polished, ns) == CleanupFrom(polished, ns, SplitNotes(polished))

\* One step of the fallback chain: the body is src up to its first note marker,
\* and what follows becomes the notes when there were none.
FallbackParts(parts, ns) ==
    [polished |-> Strip(parts[1]),
     notes    |-> IF ns = <<>> /\ Len(parts) > 1
                  THEN CleanupNotes(Strip(parts[2])) ELSE ns]

FallbackFrom(src, ns) == FallbackParts(SplitNotes(src), ns)

\* a chain with no last resort: an empty raw response leaves the body empty
FallbackNoLastResort(polished, ns, rem, raw, r) ==
    IF ~(polished = <<>> \/ Strip(polished) = <<>>)
    THEN [polished |-> polished, notes |-> ns]
    ELSE IF rem # <<>> /\ Strip(rem) # <<>> THEN FallbackFrom(rem, ns)
    ELSE IF raw # <<>> THEN FallbackFrom(raw, ns)
    ELSE [polished |-> <<>>, notes |-> ns]

\* The fallback chain, entered when the body is empty
Fallback(polished, ns, rem, raw, r) ==
    IF ~(polished = <<>> \/ Strip(polished) = <<>>)
    THEN [polished |-> polished, notes |-> ns]
    ELSE IF rem # <<>> /\ Strip(rem) # <<>> THEN FallbackFrom(rem, ns)
    ELSE IF raw # <<>> THEN FallbackFrom(raw, ns)
    ELSE [polished |-> Strip(r.str), notes |-> ns]

\* a final clean that removes one pair of enclosing quotes and no more
FinalCleanOnePair(polished) ==
    IF /\ Len(Strip(polished)) >= 2
       /\ Head(Strip(polished)) = "\""
       /\ Strip(polished)[Len(Strip(polished))] = "\""
    THEN SubSeq(Strip(polished), 2, Len(Strip(polished)) - 1)
    ELSE Strip(polished)

\* cleaned = (polished_text or "").strip().strip('"')
FinalClean(polished) == StripChar(Strip(polished), "\"")

\* The subject gate and extract_subject
SubjectStage(raw, ctx) ==
    IF IsEmailContext(ctx) /\ raw # <<>>
    THEN extract_subject(raw)
    ELSE [subject |-> None, remaining |-> raw]

\* The handler, stage by stage: a is the subject stage's result, b the parse's,
\* c the cleanup's and d the fallback chain's.
Cleaned(raw, a, d) ==
    [raw_output |-> raw, subject |-> a.subject, remaining |-> a.remaining,
     polished_text |-> d.polished, notes |-> d.notes,
     cleaned |-> FinalClean(d.polished)]

AfterCleanup(raw, a, c, r) ==
    Cleaned(raw, a, Fallback(c.polished, c.notes, a.remaining, raw, r))

AfterParse(raw, a, b, r) == AfterCleanup(raw, a, Cleanup(b.polished, b.notes), r)

AfterSubject(raw, a, r) == AfterParse(raw, a, parse_polished_and_notes(a.remaining), r)

DecomposeRaw(raw, r, ctx) == AfterSubject(raw, SubjectStage(raw, ctx), r)

\* The handler from the response to the cleaned body
Decompose(r, ctx) == DecomposeRaw(Strip(ResponseText(r)), r, ctx)

----------------------------------------------------------------------------
(* The inputs *)

\* the options of the Context selectbox
Contexts ==
    {<<"E", "m", "a", "i", "l", " ", "t", "o", " ", "m", "a", "n", "a", "g", "e", "r">>,
     <<"M", "e", "s", "s", "a", "g", "e", " ", "t", "o", " ", "m", "a", "n", "a", "g", "e", "r">>,
     <<"M", "e", "s", "s", "a", "g", "e", " ", "t", "o", " ", "t", "e", "a", "m", "m", "a", "t", "e">>,
     <<"E", "m", "a", "i", "l", " ", "t", "o", " ", "o", "n", "l", "i", "n", "e", " ", "s", "e", "l", "l", "e", "r", " ", "(", "e", ".", "g", ".", " ", "A", "m", "a", "z", "o", "n", ")">>,
     <<"P", "P", "T", " ", "t", "e", "x", "t">>,
     <<"C", "h", "a", "t", " ", "m", "e", "s", "s", "a", "g", "e">>}

\* what the text area may hold: nothing, blanks, a text
UserTexts ==
    {<<>>,
     <<" ">>,
     <<"h", "i">>}

\* Lines of a response around a subject: blank, short, labelled (in both
\* labels and letter cases, quoted and not), and nine words long
SubjectLines ==
    {<<>>,
     <<"H", "i", " ", "a">>,
     <<"S", "u", "b", "j", "e", "c", "t", ":", " ", "x">>,
     <<"S", "u", "b", "j", "e", "c", "t", " ", "L", "i", "n", "e", " ", "-", " ", "\"", "y", "\"">>,
     <<"s", "u", "b", "j", "e", "c", "t", ":", " ", "s", "a", "y", " ", "\"", "z", "\"">>,
     <<"c", " ", "c", " ", "c", " ", "c", " ", "c", " ", "c", " ", "c", " ", "c", " ", "c">>}

\* Lines of a numbered response: the two markers, bullets, a note that starts
\* with a digit
NumberedLines ==
    {<<>>,
     <<"1", ")", " ", "p">>,
     <<"2", ")", " ", "-", " ", "q">>,
     <<"2", ".", " ", "3", " ", "r">>,
     <<"-", " ", "s">>,
     <<"*", " ", "t">>}

\* Lines of a response with headings
HeadingLines ==
    {<<>>,
     <<"P", "o", "l", "i", "s", "h", "e", "d", " ", "t", "e", "x", "t", ":", " ", "v">>,
     <<"E", "d", "i", "t", " ", "n", "o", "t", "e", "s", ":">>,
     <<"k", "e", "y", " ", "e", "d", "i", "t", "s">>,
     <<"w">>,
     <<"-", " ", "x">>}

\* Lines of a response with no marker: plain, quoted once, quotes alone, quotes
\* around blanks, a quote at one end only
PlainLines ==
    {<<>>,
     <<"H", "i", " ", "a">>,
     <<"\"", "b", "\"">>,
     <<"\"", "\"">>,
     <<"\"", " ", "e", " ", "\"">>,
     <<"c", " ", "\"", "d", "\"">>}

\* the most lines a response text is built of
MaxLines == 3

\* the texts of exactly n >= 1 lines, each drawn from ls, joined by newlines
RECURSIVE Joined(_, _)
Joined(ls, n) ==
    IF n = 1 THEN ls
    ELSE {t \o <<"\n">> \o l : t \in Joined(ls, n - 1), l \in ls}

\* the texts of at most n lines of ls
TextsOf(ls, n) == UNION {Joined(ls, k) : k \in 1..n}

Texts ==
    TextsOf(SubjectLines, MaxLines) \cup TextsOf(NumberedLines, MaxLines)
    \cup TextsOf(HeadingLines, MaxLines) \cup TextsOf(PlainLines, MaxLines)

\* str(response) of a response object
ResponseStr == <<"<", "r", ">">>

\* The response objects: one per text, with no output or candidates list; the
\* objects with no text, whose raw output comes from such a list (other) or from
\* str(response); and the objects with a blank text, whose str() is the body the
\* fallback chain ends with.
Responses ==
    {[text |-> Some(t), other |-> None, str |-> ResponseStr] : t \in Texts}
    \cup {[text |-> None, other |-> o, str |-> ResponseStr] :
             o \in {None, Some(<<>>), Some(<<"1", ")", " ", "p", "\n", "2", ")", " ", "q">>)}}
    \cup {[text |-> Some(<<" ">>), other |-> None, str |-> s] :
             s \in {<<>>, <<" ">>, <<"\"", "r", "\"", " ">>}}

----------------------------------------------------------------------------
(* The program *)

NoResponse == [text |-> None, other |-> None, str |-> <<>>]

Init ==
    /\ pc = "idle"
    /\ user_text = <<>>
    /\ context = <<"E", "m", "a", "i", "l", " ", "t", "o", " ", "m", "a", "n", "a", "g", "e", "r">>
    /\ response = NoResponse
    /\ raw_output = <<>>
    /\ subject = None
    /\ remaining = <<>>
    /\ polished_text = <<>>
    /\ notes = <<>>
    /\ cleaned = <<>>
    /\ conn = FALSE
    /\ records = {}
    /\ calls = <<>>

\* The Polish button is clicked with the widgets holding txt and ctx: the script
\* runs again from the top, warns on a blank text and otherwise builds the prompt
\* and calls the model.
ClickPolish(txt, ctx) ==
    /\ pc # "calling"
    /\ user_text' = txt
    /\ context' = ctx
    /\ pc' = IF Strip(txt) = <<>> THEN "warned" ELSE "calling"
    /\ response' = NoResponse
    /\ raw_output' = <<>>
    /\ subject' = None
    /\ remaining' = <<>>
    /\ polished_text' = <<>>
    /\ notes' = <<>>
    /\ cleaned' = <<>>
    /\ UNCHANGED <<conn, records, calls>>

\* generate_content returns r: the rest of the handler runs to the download button
ModelReturns(r) ==
    /\ pc = "calling"
    /\ \E d \in {Decompose(r, context)} :
           /\ response' = r
           /\ raw_output' = d.raw_output
           /\ subject' = d.subject
           /\ remaining' = d.remaining
           /\ polished_text' = d.polished_text
           /\ notes' = d.notes
           /\ cleaned' = d.cleaned
    /\ pc' = "done"
    /\ UNCHANGED <<user_text, context, conn, records, calls>>

\* generate_content raises: the error is shown and raised again
ModelFails ==
    /\ pc = "calling"
    /\ pc' = "error"
    /\ UNCHANGED <<user_text, context, response, raw_output, subject, remaining,
                   polished_text, notes, cleaned, conn, records, calls>>

Next ==
    \/ \E txt \in UserTexts, ctx \in Contexts : ClickPolish(txt, ctx)
    \/ pc = "calling" /\ \E r \in Responses : ModelReturns(r)
    \/ ModelFails

Spec == Init /\ [][Next]_vars

----------------------------------------------------------------------------
(* The record store of storage_sqlite.py *)

\* x or "" for a str x that may be None
OrEmpty(o) == IF IsNone(o) THEN <<>> ELSE Get(o)

\* a writer that escapes nothing
JsonEscapeNothing(c) == <<c>>

\* What json.dumps writes for one character of a string (ensure_ascii=False)
JsonEscape(c) ==
    CASE c = "\"" -> <<"\\", "\"">>
      [] c = "\\" -> <<"\\", "\\">>
      [] c = "\n" -> <<"\\", "n">>
      [] c = "\r" -> <<"\\", "r">>
      [] c = "\t" -> <<"\\", "t">>
      [] c = "\f" -> <<"\\", "f">>
      [] OTHER    -> <<c>>

RECURSIVE JsonChars(_)
JsonChars(s) == IF s = <<>> THEN <<>> ELSE JsonEscape(Head(s)) \o JsonChars(Tail(s))

\* json.dumps of a str
JsonString(s) == <<"\"">> \o JsonChars(s) \o <<"\"">>

\* json.dumps(list_of_str, ensure_ascii=False)
JsonDumps(list) ==
    <<"[">> \o Join([i \in 1..Len(list) |-> JsonString(list[i])], <<",", " ">>) \o <<"]">>

\* The character an escape \c of a JSON string stands for
JsonUnescape(c) ==
    CASE c = "n" -> "\n"
      [] c = "r" -> "\r"
      [] c = "t" -> "\t"
      [] c = "f" -> "\f"
      [] OTHER   -> c

\* json.loads of an array of strings, read from index i on: cur is the string
\* being read (inside is TRUE between its quotes), acc the strings read so far
RECURSIVE JsonRead(_, _, _, _, _)
JsonRead(t, i, inside, cur, acc) ==
    IF i > Len(t) THEN acc
    ELSE IF inside
    THEN IF t[i] = "\\" THEN JsonRead(t, i + 2, TRUE, Append(cur, JsonUnescape(t[i + 1])), acc)
         ELSE IF t[i] = "\"" THEN JsonRead(t, i + 1, FALSE, <<>>, Append(acc, cur))
         ELSE JsonRead(t, i + 1, TRUE, Append(cur, t[i]), acc)
    ELSE IF t[i] = "\"" THEN JsonRead(t, i + 1, TRUE, <<>>, acc)
         ELSE IF t[i] = "]" THEN acc
         ELSE JsonRead(t, i + 1, FALSE, <<>>, acc)

JsonLoads(t) == JsonRead(t, 1, FALSE, <<>>, <<>>)

\* the id AUTOINCREMENT gives the next row of a table no row was deleted from
NextId(rows) == IF rows = {} THEN 1 ELSE Max({row.id : row \in rows}) + 1

\* The row save_record inserts for the arguments a at the time ts
NewRow(rows, a, ts) ==
    [id            |-> NextId(rows),
     timestamp     |-> ts,
     session_id    |-> a.session_id,
     input_text    |-> a.input_text,
     language      |-> a.language,
     context       |-> a.context,
     tone          |-> a.tone,
     model         |-> a.model,
     subject       |-> OrEmpty(a.subject),
     polished_text |-> OrEmpty(a.polished_text),
     notes         |-> JsonDumps(OrEmpty(a.notes)),
     input_len     |-> Len(a.input_text),
     output_len    |-> Len(OrEmpty(a.polished_text))]

\* the most rows the store is filled with
MaxRecords == 2

\* what datetime.utcnow().isoformat() may give
Timestamps == {"2026-01-01T00:00:00", "2026-01-01T00:00:01"}

\* The arguments of save_record: texts with a quote, a backslash, a newline and a
\* letter outside ASCII; subject, polished_text and notes may be None
SaveArgs ==
    [session_id    : {"s1"},
     input_text    : {<<>>, <<"h", "é", "\n">>},
     language      : {"en"},
     context       : {"Chat message"},
     tone          : {"More formal"},
     model         : {"gemini-2.5-flash"},
     subject       : {None, Some(<<"H", "i">>)},
     polished_text : {None, Some(<<"o", "\"", "k">>)},
     notes         : {None, Some(<<>>),
                      Some(<< <<"a", "\"", "b">>, <<"c", "\\", "\n", ",", " ", "]">> >>)}]

\* init_db: connect, CREATE TABLE IF NOT EXISTS, commit
InitDb ==
    /\ conn' = TRUE
    /\ UNCHANGED <<pc, user_text, context, response, raw_output, subject, remaining,
                   polished_text, notes, cleaned, records, calls>>

\* save_record on a connection init_db returned; calls keeps the arguments of
\* every call and its time, in call order
SaveRecord(a, ts) ==
    /\ conn
    /\ Cardinality(records) < MaxRecords
    /\ records' = records \cup {NewRow(records, a, ts)}
    /\ calls' = Append(calls, [args |-> a, ts |-> ts])
    /\ UNCHANGED <<pc, user_text, context, response, raw_output, subject, remaining,
                   polished_text, notes, cleaned, conn>>

StoreNext ==
    \/ InitDb
    \/ \E a \in SaveArgs, ts \in Timestamps : SaveRecord(a, ts)

\* A program that uses the store alone
StoreSpec == Init /\ [][StoreNext]_vars

----------------------------------------------------------------------------
(* The claims *)

Quote == "\""

\* the lines of s, which a newline separates (an empty s is one empty line)
RECURSIVE LinesOf(_)
LinesOf(s) ==
    IF \A k \in 1..Len(s) : s[k] # "\n" THEN <<s>>
    ELSE LET b == Min({k \in 1..Len(s) : s[k] = "\n"})
         IN  <<Before(s, b)>> \o LinesOf(From(s, b + 1))

\* the contexts of the selectbox that name no email destination
NonEmailContexts ==
    {<<"M", "e", "s", "s", "a", "g", "e", " ", "t", "o", " ", "m", "a", "n", "a", "g", "e", "r">>,
     <<"M", "e", "s", "s", "a", "g", "e", " ", "t", "o", " ", "t", "e", "a", "m", "m", "a", "t", "e">>,
     <<"P", "P", "T", " ", "t", "e", "x", "t">>,
     <<"C", "h", "a", "t", " ", "m", "e", "s", "s", "a", "g", "e">>}

\* line l starts, in any letter case, with the label Subject or Subject Line,
\* followed by ":" or "-" after optional blanks
HasSubjectLabel(l) ==
    \E n \in {7, 12} :
        /\ OccursAt(l, 1, SubSeq(SubjectLabels[2], 1, n), TRUE)
        /\ CharAt(l, SkipWs(l, n + 1), {":", "-"})

\* line l starts, after optional blanks, with one of the characters of first
\* followed by one of the characters of second
StartsWithPair(l, first, second) ==
    CharAt(l, SkipWs(l, 1), first) /\ CharAt(l, SkipWs(l, 1) + 1, second)

\* s contains the words w, in any letter case
ContainsWords(s, w) == \E i \in 1..Len(s) : OccursAt(s, i, w, TRUE)

\* s holds no recognizable marker: no Subject label line, no line that begins
\* with 1) 1. 2) or 2., none of the headings, no bullet line
NoMarkers(s) ==
    /\ \A i \in 1..Len(LinesOf(s)) :
          /\ ~HasSubjectLabel(LinesOf(s)[i])
          /\ ~StartsWithPair(LinesOf(s)[i], {"1", "2"}, {")", "."})
          /\ ~CharAt(LinesOf(s)[i], SkipWs(LinesOf(s)[i], 1), {"-", "*"})
    /\ ~ContainsWords(s, PolishedTextHeading)
    /\ ~ContainsWords(s, EditNotesHeading)
    /\ ~ContainsWords(s, KeyEditsHeading)

\* s, trimmed, has a first line of at most eight words and a blank second line:
\* the shape the implicit subject rule takes for a subject
HasImplicitSubject(s) ==
    /\ Len(LinesOf(Strip(s))) > 1
    /\ WordCount(LinesOf(Strip(s))[1]) <= 8
    /\ Strip(LinesOf(Strip(s))[2]) = <<>>

\* s with one pair of enclosing quotes removed, when it has a quote at both ends
UnquoteOnce(s) ==
    IF Len(s) >= 2 /\ s[1] = Quote /\ s[Len(s)] = Quote
    THEN SubSeq(s, 2, Len(s) - 1)
    ELSE s

\* C1: in a context that names no email destination the handler extracts no
\* subject and splits the whole raw response into body and notes, whatever the
\* response looks like.
C1_ContextGate ==
    (pc = "done" /\ context \in NonEmailContexts) =>
        /\ subject = None
        /\ remaining = raw_output
        /\ \E d \in {AfterSubject(raw_output, [subject |-> None, remaining |-> raw_output],
                                  response)} :
              /\ polished_text = d.polished_text
              /\ notes = d.notes
              /\ cleaned = d.cleaned

\* C1's case: a response with a Subject line, polished in a context that is no email
C1_Witness ==
    /\ pc = "done"
    /\ context \in NonEmailContexts
    /\ \E i \in 1..Len(LinesOf(raw_output)) : HasSubjectLabel(LinesOf(raw_output)[i])
    /\ subject = None

\* the index of the separator that follows the Subject label of line l
LabelSepIndex(l) ==
    IF OccursAt(l, 1, SubjectLabels[2], TRUE) /\ CharAt(l, SkipWs(l, 13), {":", "-"})
    THEN SkipWs(l, 13)
    ELSE SkipWs(l, 8)

\* the free text that follows the Subject label of line l
LabelText(l) == From(l, LabelSepIndex(l) + 1)

\* the indices of the lines of s that carry a Subject label and a free text
LabelLines(s) ==
    {i \in 1..Len(LinesOf(s)) :
        HasSubjectLabel(LinesOf(s)[i]) /\ Strip(LabelText(LinesOf(s)[i])) # <<>>}

\* the lines ls without line k
WithoutLine(ls, k) == SubSeq(ls, 1, k - 1) \o SubSeq(ls, k + 1, Len(ls))

\* C2 (as claimed): in an email context, when the raw response has a line with
\* a Subject label and a free text, the subject is that text, trimmed, with at
\* most one pair of enclosing quotes removed, and remaining is the raw response
\* without that line (compared up to the blanks around it).
C2_ExplicitSubject ==
    (pc = "done" /\ context \notin NonEmailContexts /\ LabelLines(raw_output) # {}) =>
        \E k \in {Min(LabelLines(raw_output))} :
            /\ subject = Some(UnquoteOnce(Strip(LabelText(LinesOf(raw_output)[k]))))
            /\ remaining = Strip(Join(WithoutLine(LinesOf(raw_output), k), <<"\n">>))

\* the indices of the lines of s that begin with the marker d) or d.
MarkerLines(s, d) ==
    {i \in 1..Len(LinesOf(s)) : StartsWithPair(LinesOf(s)[i], {d}, {")", "."})}

\* the indices of the lines of s that begin with a 2-marker after the first
\* line that begins with a 1-marker
SecondMarkerLines(s) ==
    IF MarkerLines(s, "1") = {} THEN {}
    ELSE {i \in MarkerLines(s, "2") : i > Min(MarkerLines(s, "1"))}

\* what follows the marker at the head of line l
AfterMarker(l) == From(l, SkipWs(l, 1) + 2)

\* the text of the lines k1..k2-1 of ls, read from after the marker of line k1
TextBetween(ls, k1, k2) ==
    Join(<<AfterMarker(ls[k1])>> \o SubSeq(ls, k1 + 1, k2 - 1), <<"\n">>)

\* the lines that are not blank, each without the bullet or enumeration marker
\* at its head (a run of - * digits . ) ( and the blanks after it)
NotesOf(ls) ==
    [i \in 1..Len(NonBlank(ls)) |->
        Strip(StripLeadingMarker(NonBlank(ls)[i], {"-", "*", ".", ")", "("} \cup Digits))]

\* C3 (as claimed): when the text left after the subject stage has a line that
\* begins with 1) or 1. and a later line that begins with 2) or 2., the final
\* body is the text between the two markers, trimmed, and the notes are the
\* lines after marker 2 that are not blank, in order, each without its marker.
C3_NumberedPair ==
    (pc = "done" /\ SecondMarkerLines(remaining) # {}) =>
        \E k1 \in {Min(MarkerLines(remaining, "1"))},
           k2 \in {Min(SecondMarkerLines(remaining))} :
            /\ cleaned = Strip(TextBetween(LinesOf(remaining), k1, k2))
            /\ notes = NotesOf(<<AfterMarker(LinesOf(remaining)[k2])>>
                               \o SubSeq(LinesOf(remaining), k2 + 1,
                                         Len(LinesOf(remaining))))

\* C4 (as claimed): the body is empty only if the raw response was empty.
C4_UsableBody ==
    (pc = "done" /\ raw_output # <<>>) => cleaned # <<>>

\* C5 (as claimed): an empty raw response gives no subject, an empty body and
\* no notes.
C5_EmptyInput ==
    (pc = "done" /\ raw_output = <<>>) =>
        subject = None /\ cleaned = <<>> /\ notes = <<>>

\* C5 (amended): an empty raw response gives no subject and no notes, and the
\* body is the string form of the response object, trimmed and without the
\* quotes at its ends.
C5_EmptyInputPlaceholder ==
    (pc = "done" /\ raw_output = <<>>) =>
        /\ subject = None
        /\ notes = <<>>
        /\ remaining = <<>>
        /\ cleaned = StripChar(Strip(response.str), Quote)

\* C5's case: an empty raw response of an object whose string form is not blank
C5_Witness ==
    /\ pc = "done"
    /\ raw_output = <<>>
    /\ Strip(response.str) # <<>>
    /\ cleaned # <<>>

\* s is not blank and, trimmed, has no quote at either end
NoOuterQuotes(s) ==
    /\ Strip(s) # <<>>
    /\ Head(Strip(s)) # Quote
    /\ Strip(s)[Len(Strip(s))] # Quote

\* C6 (as claimed): a response with no recognizable marker gives no notes and
\* a body that, trimmed, is the response trimmed, in every context.
C6_RoundTrip ==
    (pc = "done" /\ NoMarkers(ResponseText(response))) =>
        /\ notes = <<>>
        /\ Strip(cleaned) = Strip(ResponseText(response))

\* C6 (amended): a response with no recognizable marker that is not blank and,
\* in an email context, does not open with a line of at most eight words
\* followed by a blank line, gives no subject, no notes and, as the body, the
\* response trimmed and then without the quotes at its two ends.
C6_RoundTripPlain ==
    (/\ pc = "done"
     /\ NoMarkers(ResponseText(response))
     /\ Strip(ResponseText(response)) # <<>>
     /\ (context \in NonEmailContexts \/ ~HasImplicitSubject(ResponseText(response)))) =>
        /\ subject = None
        /\ notes = <<>>
        /\ cleaned = StripChar(Strip(ResponseText(response)), Quote)

\* C6's case: in an email context, a response of several lines that opens with
\* a line of more than eight words and a blank line, and is returned whole
C6_Witness ==
    /\ pc = "done"
    /\ context \notin NonEmailContexts
    /\ NoMarkers(ResponseText(response))
    /\ NoOuterQuotes(ResponseText(response))
    /\ Len(LinesOf(raw_output)) > 2
    /\ Strip(LinesOf(raw_output)[2]) = <<>>
    /\ ~HasImplicitSubject(ResponseText(response))
    /\ cleaned = raw_output

\* C7 (as claimed): when the body has no subject or notes marker, the handler
\* run on the body in the same context returns the same body and no notes.
C7_Idempotence ==
    (pc = "done" /\ NoMarkers(cleaned)) =>
        \E d \in {DecomposeRaw(Strip(cleaned), response, context)} :
            d.cleaned = cleaned /\ d.notes = <<>>

\* C7 (amended): when the body is not empty, has no blank at either end, has no
\* subject or notes marker and, in an email context, does not open with a line
\* of at most eight words followed by a blank line, the handler run on the body
\* in the same context returns the same body, no subject and no notes.
C7_IdempotenceTrimmed ==
    (/\ pc = "done"
     /\ cleaned # <<>>
     /\ Strip(cleaned) = cleaned
     /\ NoMarkers(cleaned)
     /\ (context \in NonEmailContexts \/ ~HasImplicitSubject(cleaned))) =>
        \E d \in {DecomposeRaw(Strip(cleaned), response, context)} :
            d.cleaned = cleaned /\ d.notes = <<>> /\ d.subject = None

\* C7's case: a body the handler cut out of a response with notes, run again
C7_Witness ==
    /\ pc = "done"
    /\ cleaned # <<>>
    /\ Strip(cleaned) = cleaned
    /\ NoMarkers(cleaned)
    /\ notes # <<>>
    /\ cleaned # raw_output
    /\ DecomposeRaw(Strip(cleaned), response, context).cleaned = cleaned

\* C8 (as claimed): the final body is the resolved body, trimmed, with one pair
\* of enclosing quotes removed and only when a quote stands at both ends.
C8_QuoteStripping ==
    pc = "done" => cleaned = UnquoteOnce(Strip(polished_text))

\* the row of the store with id i
RowOf(i) == CHOOSE row \in records : row.id = i

\* C9: the store holds one row per call of save_record, in call order; the row
\* of a call holds what was passed, its notes field reads back as the list
\* passed and its lengths are the character counts of the texts passed; the
\* rows of earlier calls are as they were written.
C9_AppendOnly ==
    /\ Cardinality(records) = Len(calls)
    /\ {row.id : row \in records} = 1..Len(calls)
    /\ \A i \in 1..Len(calls) :
          \E row \in {RowOf(i)}, a \in {calls[i].args} :
              /\ row.timestamp = calls[i].ts
              /\ row.session_id = a.session_id
              /\ row.input_text = a.input_text
              /\ row.context = a.context /\ row.tone = a.tone /\ row.model = a.model
              /\ row.language = a.language
              /\ ~IsNone(a.notes) => JsonLoads(row.notes) = Get(a.notes)
              /\ ~IsNone(a.subject) => row.subject = Get(a.subject)
              /\ row.input_len = Len(a.input_text)
              /\ ~IsNone(a.polished_text) =>
                    /\ row.polished_text = Get(a.polished_text)
                    /\ row.output_len = Len(Get(a.polished_text))

\* C9's case: two calls, the second with notes that hold quotes, a backslash
\* and a newline, after a first call whose row is still in the store
C9_Witness ==
    /\ Len(calls) = 2
    /\ ~IsNone(calls[2].args.notes)
    /\ Len(Get(calls[2].args.notes)) = 2
    /\ ~IsNone(calls[1].args.polished_text)
    /\ Cardinality(records) = 2
    /\ JsonLoads(RowOf(2).notes) = Get(calls[2].args.notes)

\* C10 (as claimed): a request whose model call succeeds writes exactly one
\* record in the same request; a rejected or failed request writes none.
C10_RecordLifecycle ==
    [][/\ (pc = "calling" /\ pc' = "done") =>
              Cardinality(records') = Cardinality(records) + 1
       /\ (pc' \in {"warned", "error"}) => records' = records]_vars

====
